---- MODULE Spec2Model ----
(***************************************************************************)
(* A model of tallybot's scoring core: the three SQLite tables (tallies,   *)
(* aliases, groups), the functions that read and write them, and           *)
(* handleMessage, which dispatches one chat line to them.  Every function  *)
(* of the program is an operator from a database value to a database      *)
(* value (and the responses sent); the actions apply handleMessage to the  *)
(* stored database.  The model follows tallybot.go; the older variant of   *)
(* the file has the same database functions and no !help.                  *)
(*                                                                         *)
(* Spec   the lines of a chat, each handled to completion, and restarts of *)
(*        the process between them; every storage call succeeds.           *)
(* SpecF  the same lines when a storage call can return an error.          *)
(* SpecC  two lines handled by two concurrent callers of handleMessage,    *)
(*        one storage statement at a time.                                 *)
(*                                                                         *)
(* tallies  item -> score          (item TEXT PRIMARY KEY, score INTEGER)  *)
(* aliases  rows (item, group_id)  kept in rowid (insertion) order         *)
(* groups   set of group_id        (INTEGER PRIMARY KEY AUTOINCREMENT)     *)
(* seq      the AUTOINCREMENT counter of groups (sqlite_sequence)          *)
(***************************************************************************)
EXTENDS Integers, Sequences, FiniteSets, TLC

VARIABLES
    tallies,   \* table tallies
    aliases,   \* table aliases
    groups,    \* table groups
    seq,       \* AUTOINCREMENT counter of groups
    net,       \* per item: increments minus decrements handled so far
    created,   \* the item names handed to ensureItemExists so far
    last,      \* SpecF: the line during which a storage call failed, the
               \* failing calls it made and the responses it sent
    callers    \* SpecC: the two callers of handleMessage, each with its line,
               \* its position in the code and its local variables

vars == <<tallies, aliases, groups, seq, net, created, last, callers>>

\* ------------------------------------------------------------------ bounds
\* The item names the commands range over.
Items == {"a", "b", "c"}

\* Deltas are only issued while every score stays within -MaxScore..MaxScore.
MaxScore == 1

\* Commands are only issued while the AUTOINCREMENT counter stays <= MaxSeq.
MaxSeq == 3

\* The largest number of item++ / item-- matches in one chat line.
MaxMatches == 1

\* ------------------------------------------------------------ the database
\* The database as one value, so that the functions below compose.
DB == [tallies |-> tallies, aliases |-> aliases, groups |-> groups, seq |-> seq]

EmptyTallies == [i \in {} |-> 0]

\* The database right after initializeDatabase on a fresh file: three empty
\* tables.
EmptyDB == [tallies |-> EmptyTallies, aliases |-> <<>>, groups |-> {}, seq |-> 0]

\* The database file ./tallies.db as a function from the names of the tables
\* it holds to their contents; NoFile is the file before it is first opened.
NoFile == [t \in {} |-> 0]

\* CREATE TABLE IF NOT EXISTS: a table that is there is left as it is.
CreateTableIfNotExists(F, table, rows) ==
    IF table \in DOMAIN F
    THEN F
    ELSE [t \in (DOMAIN F) \cup {table} |-> IF t = table THEN rows ELSE F[t]]

\* Mutant of initializeDatabase: the database is opened in memory, every start
\* begins with empty tables.
initializeDatabase_InMemory(F) ==
    CreateTableIfNotExists(
        CreateTableIfNotExists(
            CreateTableIfNotExists(
                CreateTableIfNotExists(NoFile, "tallies", EmptyTallies),
                "aliases", <<>>),
            "groups", {}),
        "seq", 0)

\* initializeDatabase: opens the file and runs the three CREATE TABLE IF NOT
\* EXISTS statements; the AUTOINCREMENT counter is stored in the file with the
\* groups table.
initializeDatabase(F) ==
    CreateTableIfNotExists(
        CreateTableIfNotExists(
            CreateTableIfNotExists(
                CreateTableIfNotExists(F, "tallies", EmptyTallies),
                "aliases", <<>>),
            "groups", {}),
        "seq", 0)

\* The set of items that have a row in aliases.
AliasItems(D) == {D.aliases[k].item : k \in DOMAIN D.aliases}

\* SELECT COUNT(*) FROM tallies WHERE item = ?
CountTallies(D, item) == IF item \in DOMAIN D.tallies THEN 1 ELSE 0

\* INSERT INTO tallies (item, score) VALUES (?, 0)
InsertTally(D, item) ==
    [D EXCEPT !.tallies = [i \in (DOMAIN D.tallies) \cup {item} |->
                              IF i = item THEN 0 ELSE D.tallies[i]]]

\* Mutant of InsertGroup: group_id without AUTOINCREMENT, the new id is one
\* more than the largest id the table holds at the moment.
InsertGroup_MaxRowid(D) ==
    LET largest == IF D.groups = {} THEN 0
                   ELSE CHOOSE g \in D.groups : \A h \in D.groups : h <= g
    IN  [D EXCEPT !.groups = D.groups \cup {largest + 1}, !.seq = largest + 1]

\* INSERT INTO groups DEFAULT VALUES; LastInsertId is the new seq.
InsertGroup(D) ==
    [D EXCEPT !.groups = D.groups \cup {D.seq + 1}, !.seq = D.seq + 1]

\* INSERT INTO aliases (item, group_id) VALUES (?, ?)
InsertAlias(D, item, groupID) ==
    [D EXCEPT !.aliases = Append(D.aliases, [item |-> item, group_id |-> groupID])]

\* Mutant of ensureItemExists: the aliases row is never written.
ensureItemExists_NoAlias(D, item) ==
    IF CountTallies(D, item) = 0
    THEN InsertGroup(InsertTally(D, item))
    ELSE D

\* Mutant of ensureItemExists: INSERT OR REPLACE INTO tallies before the count
\* is looked at, which puts the score of an existing item back to 0.
ensureItemExists_Replaces(D, item) ==
    IF CountTallies(D, item) = 0
    THEN LET D1 == InsertTally(D, item)
             D2 == InsertGroup(D1)
             groupID == D2.seq
         IN  InsertAlias(D2, item, groupID)
    ELSE InsertTally(D, item)

ensureItemExists(D, item) ==
    IF CountTallies(D, item) = 0
    THEN LET D1 == InsertTally(D, item)
             D2 == InsertGroup(D1)
             groupID == D2.seq
         IN  InsertAlias(D2, item, groupID)
    ELSE D

getScore(D, item) ==
    IF item \in DOMAIN D.tallies THEN D.tallies[item] ELSE 0

\* Mutant of updateScore: the score is written to every item of the item's
\* group, as if the group had one score.
updateScore_WholeGroup(D, item, score) ==
    [D EXCEPT !.tallies = [i \in DOMAIN D.tallies |->
        IF i = item \/ \E k \in DOMAIN D.aliases, l \in DOMAIN D.aliases :
               /\ D.aliases[k].item = i
               /\ D.aliases[l].item = item
               /\ D.aliases[k].group_id = D.aliases[l].group_id
        THEN score
        ELSE D.tallies[i]]]

\* UPDATE tallies SET score = ? WHERE item = ?  (no row: nothing is written)
updateScore(D, item, score) ==
    IF item \in DOMAIN D.tallies
    THEN [D EXCEPT !.tallies[item] = score]
    ELSE D

\* Mutant of getGroupID: the WHERE clause is missing, the first row answers
\* for every item.
getGroupID_NoWhere(D, item) ==
    IF D.aliases # <<>> THEN D.aliases[1].group_id ELSE 0

\* SELECT group_id FROM aliases WHERE item = ?  (no row: Scan fails, 0)
getGroupID(D, item) ==
    LET rows == SelectSeq(D.aliases, LAMBDA r : r.item = item)
    IN  IF rows = <<>> THEN 0 ELSE rows[1].group_id

\* UPDATE aliases SET group_id = group1 WHERE group_id = group2
UpdateAliasesGroup(D, group1, group2) ==
    [D EXCEPT !.aliases = [k \in DOMAIN D.aliases |->
        IF D.aliases[k].group_id = group2
        THEN [D.aliases[k] EXCEPT !.group_id = group1]
        ELSE D.aliases[k]]]

\* DELETE FROM groups WHERE group_id = ?
DeleteGroup(D, groupID) == [D EXCEPT !.groups = D.groups \ {groupID}]

\* UPDATE aliases SET group_id = ? WHERE item = ?
UpdateAliasItem(D, groupID, item) ==
    [D EXCEPT !.aliases = [k \in DOMAIN D.aliases |->
        IF D.aliases[k].item = item
        THEN [D.aliases[k] EXCEPT !.group_id = groupID]
        ELSE D.aliases[k]]]

\* Mutant of linkItems: only the first item is re-pointed, into the second
\* item's group.
linkItems_MovesFirst(D, item1, item2) ==
    LET D1 == ensureItemExists(D, item1)
        D2 == ensureItemExists(D1, item2)
        group1 == getGroupID(D2, item1)
        group2 == getGroupID(D2, item2)
    IN  IF group1 # group2
        THEN UpdateAliasItem(D2, group2, item1)
        ELSE D2

\* Mutant of linkItems: a size-balanced union, the smaller group is re-pointed
\* to the larger one's id.
linkItems_BySize(D, item1, item2) ==
    LET D1 == ensureItemExists(D, item1)
        D2 == ensureItemExists(D1, item2)
        group1 == getGroupID(D2, item1)
        group2 == getGroupID(D2, item2)
        size(g) == Cardinality({k \in DOMAIN D2.aliases : D2.aliases[k].group_id = g})
    IN  IF group1 # group2
        THEN IF size(group1) >= size(group2)
             THEN DeleteGroup(UpdateAliasesGroup(D2, group1, group2), group2)
             ELSE DeleteGroup(UpdateAliasesGroup(D2, group2, group1), group1)
        ELSE D2

\* Mutant of linkItems: no group1 != group2 test, the UPDATE and the DELETE run
\* for items that already share a group too.
linkItems_NoTest(D, item1, item2) ==
    LET D1 == ensureItemExists(D, item1)
        D2 == ensureItemExists(D1, item2)
        group1 == getGroupID(D2, item1)
        group2 == getGroupID(D2, item2)
    IN  DeleteGroup(UpdateAliasesGroup(D2, group1, group2), group2)

linkItems(D, item1, item2) ==
    LET D1 == ensureItemExists(D, item1)
        D2 == ensureItemExists(D1, item2)
        group1 == getGroupID(D2, item1)
        group2 == getGroupID(D2, item2)
    IN  IF group1 # group2
        THEN DeleteGroup(UpdateAliasesGroup(D2, group1, group2), group2)
        ELSE D2

\* Mutant of unlinkItems: the group test is inverted, so items that share a
\* group are left together.
unlinkItems_Inverted(D, item1, item2) ==
    LET D1 == ensureItemExists(D, item1)
        D2 == ensureItemExists(D1, item2)
        group1 == getGroupID(D2, item1)
        group2 == getGroupID(D2, item2)
    IN  IF group1 # group2
        THEN LET D3 == InsertGroup(D2)
                 newGroupID == D3.seq
             IN  UpdateAliasItem(D3, newGroupID, item2)
        ELSE D2

\* Mutant of unlinkItems: the first item is moved to the new group, not the
\* second.
unlinkItems_MovesFirst(D, item1, item2) ==
    LET D1 == ensureItemExists(D, item1)
        D2 == ensureItemExists(D1, item2)
        group1 == getGroupID(D2, item1)
        group2 == getGroupID(D2, item2)
    IN  IF group1 = group2
        THEN LET D3 == InsertGroup(D2)
                 newGroupID == D3.seq
             IN  UpdateAliasItem(D3, newGroupID, item1)
        ELSE D2

\* Mutant of unlinkItems: no group test, the second item always gets a new
\* group.
unlinkItems_Always(D, item1, item2) ==
    LET D1 == ensureItemExists(D, item1)
        D2 == ensureItemExists(D1, item2)
        D3 == InsertGroup(D2)
        newGroupID == D3.seq
    IN  UpdateAliasItem(D3, newGroupID, item2)

\* Mutant of unlinkItems: a split of the group, every member but the first
\* item is moved to the new group.
unlinkItems_SplitsGroup(D, item1, item2) ==
    LET D1 == ensureItemExists(D, item1)
        D2 == ensureItemExists(D1, item2)
        group1 == getGroupID(D2, item1)
        group2 == getGroupID(D2, item2)
    IN  IF group1 = group2
        THEN LET D3 == InsertGroup(D2)
                 newGroupID == D3.seq
             IN  [D3 EXCEPT !.aliases = [k \in DOMAIN D3.aliases |->
                     IF \/ (D3.aliases[k].group_id = group1 /\ D3.aliases[k].item # item1)
                        \/ D3.aliases[k].item = item2
                     THEN [D3.aliases[k] EXCEPT !.group_id = newGroupID]
                     ELSE D3.aliases[k]]]
        ELSE D2

unlinkItems(D, item1, item2) ==
    LET D1 == ensureItemExists(D, item1)
        D2 == ensureItemExists(D1, item2)
        group1 == getGroupID(D2, item1)
        group2 == getGroupID(D2, item2)
    IN  IF group1 = group2
        THEN LET D3 == InsertGroup(D2)
                 newGroupID == D3.seq
             IN  UpdateAliasItem(D3, newGroupID, item2)
        ELSE D2

\* The rows of tallies JOIN aliases USING(item) WHERE group_id = groupID, as
\* the subsequence of aliases rows that have a tallies row.
JoinRows(D, groupID) ==
    SelectSeq(D.aliases, LAMBDA r : r.group_id = groupID /\ r.item \in DOMAIN D.tallies)

\* Mutant of SumScores: COUNT(score) in place of SUM(score).
SumScores_Count(D, rows) == Len(rows)

RECURSIVE SumScores(_, _)
SumScores(D, rows) ==
    IF rows = <<>> THEN 0
    ELSE D.tallies[Head(rows).item] + SumScores(D, Tail(rows))

\* Mutant of getTotalScore: reports the item's own score, not the group's.
getTotalScore_OwnScore(D, item) == getScore(D, item)

\* SUM over no rows is NULL, which Scan cannot store in an int: 0 is returned.
getTotalScore(D, item) ==
    LET groupID == getGroupID(D, item)
    IN  IF groupID = 0
        THEN getScore(D, item)
        ELSE LET rows == JoinRows(D, groupID)
             IN  IF rows = <<>> THEN 0 ELSE SumScores(D, rows)

\* Mutant of getLinkedItems: the AND item != ? condition is missing, the item
\* is listed among its own linked items.
getLinkedItems_IncludesSelf(D, item) ==
    LET groupID == getGroupID(D, item)
    IN  IF groupID = 0
        THEN <<>>
        ELSE LET rows == SelectSeq(D.aliases, LAMBDA r : r.group_id = groupID)
             IN  [k \in DOMAIN rows |-> rows[k].item]

\* SELECT item FROM aliases WHERE group_id = ? AND item != ?, in rowid order.
getLinkedItems(D, item) ==
    LET groupID == getGroupID(D, item)
    IN  IF groupID = 0
        THEN <<>>
        ELSE LET rows == SelectSeq(D.aliases,
                             LAMBDA r : r.group_id = groupID /\ r.item # item)
             IN  [k \in DOMAIN rows |-> rows[k].item]

\* ------------------------------------------------------------ handleMessage
Ops == {"++", "--"}

\* The upvoteMatches of a line: one to MaxMatches (item, operation) pairs.
Matches == UNION {[1..n -> Items \X Ops] : n \in 1..MaxMatches}

\* Mutant of upvote: the operation is not looked at, every match increments.
upvote_AlwaysIncrement(D, match) ==
    LET item == match[1]
        D1 == ensureItemExists(D, item)
        newScore == getScore(D1, item) + 1
        D2 == updateScore(D1, item, newScore)
    IN  [db |-> D2,
         response |-> [kind |-> "score", item |-> item, score |-> newScore,
                       linked |-> getLinkedItems(D2, item)]]

\* One iteration of the upvote loop: the database it leaves and the response
\* it sends, which carries the newScore it computed (not a re-read) and the
\* linked items read after the update.
upvote(D, match) ==
    LET item == match[1]
        operation == match[2]
        D1 == ensureItemExists(D, item)
        currentScore == getScore(D1, item)
        newScore == IF operation = "++" THEN currentScore + 1 ELSE currentScore - 1
        D2 == updateScore(D1, item, newScore)
        linkedItems == getLinkedItems(D2, item)
    IN  [db |-> D2,
         response |-> [kind |-> "score", item |-> item, score |-> newScore,
                       linked |-> linkedItems]]

\* The upvote loop over the first n matches of a line, left to right: the
\* database afterwards and the responses sent so far.
RECURSIVE upvoteLoop(_, _, _)
upvoteLoop(D, matches, n) ==
    IF n = 0 THEN [db |-> D, out |-> <<>>]
    ELSE LET before == upvoteLoop(D, matches, n - 1)
             step == upvote(before.db, matches[n])
         IN  [db |-> step.db, out |-> Append(before.out, step.response)]

\* A chat line, as the regular expressions of handleMessage see it: which
\* pattern it matches and the captured items.
NoItem == "-"

Command(op, item1, item2, matches) ==
    [op |-> op, item1 |-> item1, item2 |-> item2, matches |-> matches]

HelpLine == Command("help", NoItem, NoItem, <<>>)

UnlinkLine(item1, item2) == Command("unlink", item1, item2, <<>>)

LinkLine(item1, item2) == Command("link", item1, item2, <<>>)

TotalLine(item) == Command("total", item, NoItem, <<>>)

DeltaLine(matches) == Command("delta", NoItem, NoItem, matches)

\* Mutant of handleMessage: !total creates the item it is asked about, as the
\* other commands do.
handleMessage_TotalCreates(D, message) ==
    IF message.op = "help"
    THEN [db |-> D, out |-> <<[kind |-> "help"]>>]
    ELSE IF message.op = "unlink"
    THEN [db |-> unlinkItems(D, message.item1, message.item2),
          out |-> <<[kind |-> "Unlinked", item1 |-> message.item1,
                     item2 |-> message.item2]>>]
    ELSE IF message.op = "link"
    THEN [db |-> linkItems(D, message.item1, message.item2),
          out |-> <<[kind |-> "Linked", item1 |-> message.item1,
                     item2 |-> message.item2]>>]
    ELSE IF message.op = "total"
    THEN [db |-> ensureItemExists(D, message.item1),
          out |-> <<[kind |-> "total", item |-> message.item1,
                     total |-> getTotalScore(D, message.item1)]>>]
    ELSE upvoteLoop(D, message.matches, Len(message.matches))

\* handleMessage: the database it leaves and the responses it sends with
\* Privmsg, in the order of its tests: help, unlink, link, total, upvotes.
handleMessage(D, message) ==
    IF message.op = "help"
    THEN [db |-> D, out |-> <<[kind |-> "help"]>>]
    ELSE IF message.op = "unlink"
    THEN [db |-> unlinkItems(D, message.item1, message.item2),
          out |-> <<[kind |-> "Unlinked", item1 |-> message.item1,
                     item2 |-> message.item2]>>]
    ELSE IF message.op = "link"
    THEN [db |-> linkItems(D, message.item1, message.item2),
          out |-> <<[kind |-> "Linked", item1 |-> message.item1,
                     item2 |-> message.item2]>>]
    ELSE IF message.op = "total"
    THEN [db |-> D,
          out |-> <<[kind |-> "total", item |-> message.item1,
                     total |-> getTotalScore(D, message.item1)]>>]
    ELSE upvoteLoop(D, message.matches, Len(message.matches))

\* The net number of deltas (increments minus decrements) the first n matches
\* hold for item i.
RECURSIVE NetOf(_, _, _)
NetOf(matches, n, i) ==
    IF n = 0 THEN 0
    ELSE NetOf(matches, n - 1, i)
         + (IF matches[n][1] = i
            THEN (IF matches[n][2] = "++" THEN 1 ELSE 0 - 1)
            ELSE 0)

\* The range the scores are checked in.
ScoreRange == (0 - MaxScore)..MaxScore

\* The scores of D all lie within the checked range.
ScoresInRange(D) ==
    \A i \in DOMAIN D.tallies : D.tallies[i] \in ScoreRange

\* The PRIVMSG callback has handled a line to completion and left database D;
\* a line is only taken while the counter and the scores stay in range.
Commit(D) ==
    /\ D.seq <= MaxSeq
    /\ ScoresInRange(D)
    /\ tallies' = D.tallies
    /\ aliases' = D.aliases
    /\ groups' = D.groups
    /\ seq' = D.seq
    /\ UNCHANGED <<last, callers>>

\* A caller that is not inside handleMessage.
Idle == [line |-> HelpLine, pc |-> "done", k |-> 0, id |-> 0, score |-> 0,
         group1 |-> 0, group2 |-> 0]

\* No line has been handed to concurrent callers: no line handled before, no
\* database to start from, both callers idle.
NoCallers == [handled |-> 0, started |-> FALSE, start |-> EmptyDB,
              c |-> <<Idle, Idle>>]

\* No storage call has failed so far.
NoLine == [line |-> HelpLine, hit |-> {}, out |-> <<>>]

\* !help
Help ==
    /\ \E D \in {handleMessage(DB, HelpLine).db} : Commit(D)
    /\ UNCHANGED <<net, created>>

\* !unlink item1 item2
Unlink ==
    \E item1 \in Items, item2 \in Items :
        /\ \E D \in {handleMessage(DB, UnlinkLine(item1, item2)).db} : Commit(D)
        /\ created' = created \cup {item1, item2}
        /\ UNCHANGED net

\* !link item1 item2
Link ==
    \E item1 \in Items, item2 \in Items :
        /\ \E D \in {handleMessage(DB, LinkLine(item1, item2)).db} : Commit(D)
        /\ created' = created \cup {item1, item2}
        /\ UNCHANGED net

\* !total item
Total ==
    \E item \in Items :
        /\ \E D \in {handleMessage(DB, TotalLine(item)).db} : Commit(D)
        /\ UNCHANGED <<net, created>>

\* a line with one or more item++ / item-- matches
Delta ==
    \E matches \in Matches :
        /\ \E D \in {handleMessage(DB, DeltaLine(matches)).db} : Commit(D)
        /\ created' = created \cup {matches[n][1] : n \in 1..Len(matches)}
        /\ net' = [i \in Items |-> net[i] + NetOf(matches, Len(matches), i)]

\* The process is stopped between two lines and started again: main runs
\* initializeDatabase on the file the earlier run left.
Restart ==
    /\ \E D \in {initializeDatabase(DB)} : Commit(D)
    /\ UNCHANGED <<net, created>>

Init ==
    /\ tallies = EmptyDB.tallies
    /\ aliases = EmptyDB.aliases
    /\ groups = EmptyDB.groups
    /\ seq = EmptyDB.seq
    /\ net = [i \in Items |-> 0]
    /\ created = {}
    /\ last = NoLine
    /\ callers = NoCallers

Next == Help \/ Unlink \/ Link \/ Total \/ Delta \/ Restart

Spec == Init /\ [][Next]_vars

\* --------------------------------------------------------- storage failures
\* Every database/sql call can return an error.  A storage call is named by
\* the function that makes it, the how-manieth call of that function within
\* the command it is (the upvote loop: the iteration), the statement, and for
\* rows.Scan the row.  The functions below are the functions above with a set
\* `fails` of storage calls that return an error; each returns, beside what
\* the function above returns, the set `hit` of failing calls it has made.
Site(func, n, stmt, k) == <<func, n, stmt, k>>

Result(D, hit) == [db |-> D, hit |-> hit]

ensureItemExistsF(D, item, n, fails) ==
    IF Site("ensureItemExists", n, "count", 0) \in fails
    THEN Result(D, {Site("ensureItemExists", n, "count", 0)})
    ELSE IF CountTallies(D, item) # 0
    THEN Result(D, {})
    ELSE IF Site("ensureItemExists", n, "insertTally", 0) \in fails
    THEN Result(D, {Site("ensureItemExists", n, "insertTally", 0)})
    ELSE LET D1 == InsertTally(D, item)
         IN  IF Site("ensureItemExists", n, "insertGroup", 0) \in fails
             THEN Result(D1, {Site("ensureItemExists", n, "insertGroup", 0)})
             ELSE LET D2 == InsertGroup(D1)
                      groupID == D2.seq
                  IN  IF Site("ensureItemExists", n, "lastInsertId", 0) \in fails
                      THEN Result(D2, {Site("ensureItemExists", n, "lastInsertId", 0)})
                      ELSE IF Site("ensureItemExists", n, "insertAlias", 0) \in fails
                      THEN Result(D2, {Site("ensureItemExists", n, "insertAlias", 0)})
                      ELSE Result(InsertAlias(D2, item, groupID), {})

\* getScore: a failed read is logged and answered with 0.
getScoreF(D, item, n, fails) ==
    IF Site("getScore", n, "select", 0) \in fails
    THEN [val |-> 0, hit |-> {Site("getScore", n, "select", 0)}]
    ELSE [val |-> getScore(D, item), hit |-> {}]

\* updateScore: a failed write is logged.
updateScoreF(D, item, score, n, fails) ==
    IF Site("updateScore", n, "update", 0) \in fails
    THEN Result(D, {Site("updateScore", n, "update", 0)})
    ELSE Result(updateScore(D, item, score), {})

\* getGroupID: a failed read is answered with 0, as a missing row is.
getGroupIDF(D, item, func, n, fails) ==
    IF Site(func, n, "getGroupID", 0) \in fails
    THEN [val |-> 0, hit |-> {Site(func, n, "getGroupID", 0)}]
    ELSE [val |-> getGroupID(D, item), hit |-> {}]

linkItemsF(D, item1, item2, fails) ==
    LET e1 == ensureItemExistsF(D, item1, 1, fails)
        e2 == ensureItemExistsF(e1.db, item2, 2, fails)
        group1 == getGroupIDF(e2.db, item1, "linkItems", 1, fails)
        group2 == getGroupIDF(e2.db, item2, "linkItems", 2, fails)
        hit == e1.hit \cup e2.hit \cup group1.hit \cup group2.hit
    IN  IF group1.val # group2.val
        THEN IF Site("linkItems", 0, "update", 0) \in fails
             THEN Result(e2.db, hit \cup {Site("linkItems", 0, "update", 0)})
             ELSE LET D3 == UpdateAliasesGroup(e2.db, group1.val, group2.val)
                  IN  IF Site("linkItems", 0, "delete", 0) \in fails
                      THEN Result(D3, hit \cup {Site("linkItems", 0, "delete", 0)})
                      ELSE Result(DeleteGroup(D3, group2.val), hit)
        ELSE Result(e2.db, hit)

unlinkItemsF(D, item1, item2, fails) ==
    LET e1 == ensureItemExistsF(D, item1, 1, fails)
        e2 == ensureItemExistsF(e1.db, item2, 2, fails)
        group1 == getGroupIDF(e2.db, item1, "unlinkItems", 1, fails)
        group2 == getGroupIDF(e2.db, item2, "unlinkItems", 2, fails)
        hit == e1.hit \cup e2.hit \cup group1.hit \cup group2.hit
    IN  IF group1.val = group2.val
        THEN IF Site("unlinkItems", 0, "insertGroup", 0) \in fails
             THEN Result(e2.db, hit \cup {Site("unlinkItems", 0, "insertGroup", 0)})
             ELSE LET D3 == InsertGroup(e2.db)
                      newGroupID == D3.seq
                  IN  IF Site("unlinkItems", 0, "lastInsertId", 0) \in fails
                      THEN Result(D3, hit \cup {Site("unlinkItems", 0, "lastInsertId", 0)})
                      ELSE IF Site("unlinkItems", 0, "update", 0) \in fails
                      THEN Result(D3, hit \cup {Site("unlinkItems", 0, "update", 0)})
                      ELSE Result(UpdateAliasItem(D3, newGroupID, item2), hit)
        ELSE Result(e2.db, hit)

\* getTotalScore: a failed SUM query (as a NULL sum) is logged and answered
\* with 0.
getTotalScoreF(D, item, fails) ==
    LET groupID == getGroupIDF(D, item, "getTotalScore", 0, fails)
    IN  IF groupID.val = 0
        THEN LET own == getScoreF(D, item, 0, fails)
             IN  [val |-> own.val, hit |-> groupID.hit \cup own.hit]
        ELSE IF Site("getTotalScore", 0, "select", 0) \in fails
        THEN [val |-> 0, hit |-> {Site("getTotalScore", 0, "select", 0)}]
        ELSE LET rows == JoinRows(D, groupID.val)
             IN  [val |-> IF rows = <<>> THEN 0 ELSE SumScores(D, rows),
                  hit |-> {}]

\* getLinkedItems: a failed query answers with no items, a row whose Scan
\* fails is skipped.
getLinkedItemsF(D, item, n, fails) ==
    LET groupID == getGroupIDF(D, item, "getLinkedItems", n, fails)
    IN  IF groupID.val = 0
        THEN [val |-> <<>>, hit |-> groupID.hit]
        ELSE IF Site("getLinkedItems", n, "select", 0) \in fails
        THEN [val |-> <<>>, hit |-> {Site("getLinkedItems", n, "select", 0)}]
        ELSE LET rows == SelectSeq(D.aliases,
                             LAMBDA r : r.group_id = groupID.val /\ r.item # item)
                 numbered == [k \in DOMAIN rows |-> [k |-> k, item |-> rows[k].item]]
                 scanned == SelectSeq(numbered,
                                LAMBDA r : Site("getLinkedItems", n, "scan", r.k) \notin fails)
             IN  [val |-> [k \in DOMAIN scanned |-> scanned[k].item],
                  hit |-> {Site("getLinkedItems", n, "scan", k) : k \in DOMAIN rows}
                              \cap fails]

\* Iteration n of the upvote loop.
upvoteF(D, match, n, fails) ==
    LET item == match[1]
        operation == match[2]
        e == ensureItemExistsF(D, item, n, fails)
        currentScore == getScoreF(e.db, item, n, fails)
        newScore == IF operation = "++" THEN currentScore.val + 1
                    ELSE currentScore.val - 1
        u == updateScoreF(e.db, item, newScore, n, fails)
        linkedItems == getLinkedItemsF(u.db, item, n, fails)
    IN  [db |-> u.db,
         hit |-> e.hit \cup currentScore.hit \cup u.hit \cup linkedItems.hit,
         response |-> [kind |-> "score", item |-> item, score |-> newScore,
                       linked |-> linkedItems.val]]

RECURSIVE upvoteLoopF(_, _, _, _)
upvoteLoopF(D, matches, n, fails) ==
    IF n = 0 THEN [db |-> D, hit |-> {}, out |-> <<>>]
    ELSE LET before == upvoteLoopF(D, matches, n - 1, fails)
             step == upvoteF(before.db, matches[n], n, fails)
         IN  [db |-> step.db, hit |-> before.hit \cup step.hit,
              out |-> Append(before.out, step.response)]

\* handleMessage when the storage calls of `fails` return an error: the
\* database it leaves, the failing calls it has made, the responses it sends.
handleMessageF(D, message, fails) ==
    IF message.op = "help"
    THEN [db |-> D, hit |-> {}, out |-> <<[kind |-> "help"]>>]
    ELSE IF message.op = "unlink"
    THEN LET r == unlinkItemsF(D, message.item1, message.item2, fails)
         IN  [db |-> r.db, hit |-> r.hit,
              out |-> <<[kind |-> "Unlinked", item1 |-> message.item1,
                         item2 |-> message.item2]>>]
    ELSE IF message.op = "link"
    THEN LET r == linkItemsF(D, message.item1, message.item2, fails)
         IN  [db |-> r.db, hit |-> r.hit,
              out |-> <<[kind |-> "Linked", item1 |-> message.item1,
                         item2 |-> message.item2]>>]
    ELSE IF message.op = "total"
    THEN LET r == getTotalScoreF(D, message.item1, fails)
         IN  [db |-> D, hit |-> r.hit,
              out |-> <<[kind |-> "total", item |-> message.item1,
                         total |-> r.val]>>]
    ELSE upvoteLoopF(D, message.matches, Len(message.matches), fails)

\* The storage calls of one ensureItemExists, the n-th of a command.
EnsureSites(n) ==
    {"ensureItemExists"} \X {n} \X
        {"count", "insertTally", "insertGroup", "lastInsertId", "insertAlias"} \X {0}

\* The storage calls handleMessage can make for a line.
Sites(message) ==
    IF message.op = "link"
    THEN EnsureSites(1) \cup EnsureSites(2)
         \cup ({"linkItems"} \X {1, 2} \X {"getGroupID"} \X {0})
         \cup ({"linkItems"} \X {0} \X {"update", "delete"} \X {0})
    ELSE IF message.op = "unlink"
    THEN EnsureSites(1) \cup EnsureSites(2)
         \cup ({"unlinkItems"} \X {1, 2} \X {"getGroupID"} \X {0})
         \cup ({"unlinkItems"} \X {0} \X {"insertGroup", "lastInsertId", "update"} \X {0})
    ELSE IF message.op = "total"
    THEN ({"getTotalScore"} \X {0} \X {"getGroupID", "select"} \X {0})
         \cup ({"getScore"} \X {0} \X {"select"} \X {0})
    ELSE UNION {EnsureSites(n)
                \cup ({"getScore"} \X {n} \X {"select"} \X {0})
                \cup ({"updateScore"} \X {n} \X {"update"} \X {0})
                \cup ({"getLinkedItems"} \X {n} \X {"getGroupID", "select"} \X {0})
                \cup ({"getLinkedItems"} \X {n} \X {"scan"} \X (1..(Cardinality(Items) - 1)))
                : n \in DOMAIN message.matches}

\* The storage calls that fail while a line is handled: none, or one of them.
FaultSets(message) == {{}} \cup {{site} : site \in Sites(message)}

\* With no failing call the functions of this section are the functions above.
FaultFreeAgrees ==
    \A message \in {LinkLine(a, b) : a \in Items, b \in Items}
                   \cup {UnlinkLine(a, b) : a \in Items, b \in Items}
                   \cup {DeltaLine(m) : m \in Matches}
                   \cup {TotalLine(x) : x \in Items} \cup {HelpLine} :
        \A r \in {handleMessageF(DB, message, {})} :
            /\ r.hit = {}
            /\ [db |-> r.db, out |-> r.out] = handleMessage(DB, message)

\* The PRIVMSG callback has handled `message` to completion while one of its
\* storage calls failed, or none.  A run is followed up to its first line with
\* a failing storage call, which `last` then holds.
CommitF(message) ==
    \E fails \in FaultSets(message) : \E r \in {handleMessageF(DB, message, fails)} :
        /\ r.db.seq <= MaxSeq
        /\ ScoresInRange(r.db)
        /\ tallies' = r.db.tallies
        /\ aliases' = r.db.aliases
        /\ groups' = r.db.groups
        /\ seq' = r.db.seq
        /\ last' = IF r.hit = {} THEN NoLine
                   ELSE [line |-> message, hit |-> r.hit, out |-> r.out]
        /\ UNCHANGED callers

\* !unlink item1 item2, storage failures possible
UnlinkF ==
    /\ last.hit = {}
    /\ \E item1 \in Items, item2 \in Items :
        /\ CommitF(UnlinkLine(item1, item2))
        /\ created' = created \cup {item1, item2}
        /\ UNCHANGED net

\* !link item1 item2, storage failures possible
LinkF ==
    /\ last.hit = {}
    /\ \E item1 \in Items, item2 \in Items :
        /\ CommitF(LinkLine(item1, item2))
        /\ created' = created \cup {item1, item2}
        /\ UNCHANGED net

\* !total item, storage failures possible
TotalF ==
    /\ last.hit = {}
    /\ \E item \in Items :
        /\ CommitF(TotalLine(item))
        /\ UNCHANGED <<net, created>>

\* a line with one or more item++ / item-- matches, storage failures possible
DeltaF ==
    /\ last.hit = {}
    /\ \E matches \in Matches :
        /\ CommitF(DeltaLine(matches))
        /\ created' = created \cup {matches[n][1] : n \in 1..Len(matches)}
        /\ net' = [i \in Items |-> net[i] + NetOf(matches, Len(matches), i)]

NextF == UnlinkF \/ LinkF \/ TotalF \/ DeltaF

\* The program with storage calls that can fail.
SpecF == Init /\ [][NextF]_vars

\* -------------------------------------------------------- concurrent callers
\* handleMessage called by two callers at once on the one database.  The code
\* opens no transaction, so every storage statement commits on its own and the
\* statements of the two callers interleave in any order.  A caller is a
\* record: its line, pc (the statement it executes next), k (which
\* ensureItemExists call of link/unlink, or which match of the upvote loop, it
\* is in) and the locals the code keeps between statements: id (groupID,
\* newGroupID), score (currentScore), group1, group2.

\* The lines before the callers start: at most MaxPrefix, one after another.
MaxPrefix == 1

\* The lines handed to the callers.
CallerLines ==
    {LinkLine(a, b) : a \in Items, b \in Items}
    \cup {UnlinkLine(a, b) : a \in Items, b \in Items}
    \cup {DeltaLine(m) : m \in Matches}
    \cup {TotalLine(x) : x \in Items}

\* The caller as it enters handleMessage with a line.
Enter(message) ==
    [Idle EXCEPT !.line = message,
                 !.pc = IF message.op = "total" THEN "totalGroup" ELSE "count",
                 !.k = 1]

\* The item of the ensureItemExists call, or of the upvote match, the caller
\* is in.
Target(c) ==
    IF c.line.op = "delta" THEN c.line.matches[c.k][1]
    ELSE IF c.line.op = "total" THEN c.line.item1
    ELSE IF c.k = 1 THEN c.line.item1 ELSE c.line.item2

\* Where the caller goes when ensureItemExists returns.
AfterEnsure(c) ==
    IF c.line.op = "delta" THEN [c EXCEPT !.pc = "getScore"]
    ELSE IF c.k = 1 THEN [c EXCEPT !.pc = "count", !.k = 2]
    ELSE [c EXCEPT !.pc = "getGroup1"]

\* Where the caller goes after an iteration of the upvote loop.
NextMatch(c) ==
    IF c.k < Len(c.line.matches) THEN [c EXCEPT !.pc = "count", !.k = c.k + 1]
    ELSE [c EXCEPT !.pc = "done"]

Stepped(D, c) == [db |-> D, c |-> c]

\* One storage statement of caller c on database D, and what the caller does
\* up to its next storage statement.
Step(D, c) ==
    LET item == Target(c)
    IN  CASE c.pc = "count" ->
                \* SELECT COUNT(*) FROM tallies WHERE item = ?
                IF CountTallies(D, item) = 0
                THEN Stepped(D, [c EXCEPT !.pc = "insertTally"])
                ELSE Stepped(D, AfterEnsure(c))
          [] c.pc = "insertTally" ->
                \* INSERT INTO tallies: a row of that item put there since the
                \* count violates the primary key, the error is logged
                IF item \in DOMAIN D.tallies
                THEN Stepped(D, AfterEnsure(c))
                ELSE Stepped(InsertTally(D, item), [c EXCEPT !.pc = "insertGroup"])
          [] c.pc = "insertGroup" ->
                Stepped(InsertGroup(D), [c EXCEPT !.pc = "insertAlias", !.id = D.seq + 1])
          [] c.pc = "insertAlias" ->
                \* INSERT INTO aliases: primary key item, as above
                IF item \in AliasItems(D)
                THEN Stepped(D, AfterEnsure(c))
                ELSE Stepped(InsertAlias(D, item, c.id), AfterEnsure(c))
          [] c.pc = "getScore" ->
                Stepped(D, [c EXCEPT !.pc = "updateScore", !.score = getScore(D, item)])
          [] c.pc = "updateScore" ->
                Stepped(updateScore(D, item,
                                    IF c.line.matches[c.k][2] = "++"
                                    THEN c.score + 1 ELSE c.score - 1),
                        [c EXCEPT !.pc = "linkedGroup"])
          [] c.pc = "linkedGroup" ->
                \* getLinkedItems: getGroupID, 0 ends it
                IF getGroupID(D, item) = 0
                THEN Stepped(D, NextMatch(c))
                ELSE Stepped(D, [c EXCEPT !.pc = "linkedSelect", !.id = getGroupID(D, item)])
          [] c.pc = "linkedSelect" ->
                Stepped(D, NextMatch(c))
          [] c.pc = "getGroup1" ->
                Stepped(D, [c EXCEPT !.pc = "getGroup2",
                                     !.group1 = getGroupID(D, c.line.item1)])
          [] c.pc = "getGroup2" ->
                LET group2 == getGroupID(D, c.line.item2)
                IN  Stepped(D, [c EXCEPT !.group2 = group2,
                                         !.pc = IF c.line.op = "link"
                                                THEN (IF c.group1 # group2
                                                      THEN "linkUpdate" ELSE "done")
                                                ELSE (IF c.group1 = group2
                                                      THEN "unlinkInsert" ELSE "done")])
          [] c.pc = "linkUpdate" ->
                Stepped(UpdateAliasesGroup(D, c.group1, c.group2),
                        [c EXCEPT !.pc = "linkDelete"])
          [] c.pc = "linkDelete" ->
                Stepped(DeleteGroup(D, c.group2), [c EXCEPT !.pc = "done"])
          [] c.pc = "unlinkInsert" ->
                Stepped(InsertGroup(D), [c EXCEPT !.pc = "unlinkUpdate", !.id = D.seq + 1])
          [] c.pc = "unlinkUpdate" ->
                Stepped(UpdateAliasItem(D, c.id, c.line.item2), [c EXCEPT !.pc = "done"])
          [] c.pc = "totalGroup" ->
                IF getGroupID(D, item) = 0
                THEN Stepped(D, [c EXCEPT !.pc = "totalScore"])
                ELSE Stepped(D, [c EXCEPT !.pc = "totalSum", !.id = getGroupID(D, item)])
          [] c.pc = "totalScore" ->
                Stepped(D, [c EXCEPT !.pc = "done", !.score = getScore(D, item)])
          [] c.pc = "totalSum" ->
                LET rows == JoinRows(D, c.id)
                IN  Stepped(D, [c EXCEPT !.pc = "done",
                                         !.score = IF rows = <<>> THEN 0
                                                   ELSE SumScores(D, rows)])

\* A line is handled to completion before the callers start.
LineC ==
    /\ ~callers.started
    /\ callers.handled < MaxPrefix
    /\ \E message \in CallerLines : \E D \in {handleMessage(DB, message).db} :
           /\ D.seq <= MaxSeq
           /\ ScoresInRange(D)
           /\ tallies' = D.tallies
           /\ aliases' = D.aliases
           /\ groups' = D.groups
           /\ seq' = D.seq
    /\ callers' = [callers EXCEPT !.handled = callers.handled + 1]
    /\ UNCHANGED <<net, created, last>>

\* Two lines arrive and each caller enters handleMessage with one of them.
Begin ==
    /\ ~callers.started
    /\ \E message1 \in CallerLines, message2 \in CallerLines :
           callers' = [callers EXCEPT !.started = TRUE, !.start = DB,
                                      !.c = <<Enter(message1), Enter(message2)>>]
    /\ UNCHANGED <<tallies, aliases, groups, seq, net, created, last>>

\* Caller i executes its next storage statement.
Statement(i) ==
    /\ callers.started
    /\ callers.c[i].pc # "done"
    /\ \E r \in {Step(DB, callers.c[i])} :
           /\ r.db.seq <= MaxSeq
           /\ ScoresInRange(r.db)
           /\ tallies' = r.db.tallies
           /\ aliases' = r.db.aliases
           /\ groups' = r.db.groups
           /\ seq' = r.db.seq
           /\ callers' = [callers EXCEPT !.c[i] = r.c]
    /\ UNCHANGED <<net, created, last>>

NextC == LineC \/ Begin \/ \E i \in 1..2 : Statement(i)

\* The program with two concurrent callers of handleMessage.
SpecC == Init /\ [][NextC]_vars

\* A caller that runs alone from D to the end of its line leaves the database
\* handleMessage leaves.
RECURSIVE RunAlone(_, _)
RunAlone(D, c) ==
    IF c.pc = "done" THEN D
    ELSE LET r == Step(D, c) IN RunAlone(r.db, r.c)

StatementsAgree ==
    \A message \in CallerLines :
        RunAlone(DB, Enter(message)) = handleMessage(DB, message).db

\* ---------------------------------------------------------------- vocabulary
\* The words of the properties below, read off a database D.
groupOf(D, x) == getGroupID(D, x)

score(D, x) == getScore(D, x)

totalScore(D, x) == getTotalScore(D, x)

linkedItems(D, x) == getLinkedItems(D, x)

\* The database that !link a b, !unlink a b and a line of upvote matches leave.
link(D, a, b) == handleMessage(D, LinkLine(a, b)).db

unlink(D, a, b) == handleMessage(D, UnlinkLine(a, b)).db

delta(D, matches) == handleMessage(D, DeltaLine(matches)).db

\* ensureItem(name) of the Item Score Store.
ensureItem(D, name) == ensureItemExists(D, name)

\* The items with a score record.
Existing(D) == DOMAIN D.tallies

\* The items whose current group id is g: the items of the aliases rows WHERE
\* group_id = g (0 is the id of no group).
Members(D, g) ==
    IF g = 0 THEN {}
    ELSE {D.aliases[k].item : k \in {j \in DOMAIN D.aliases : D.aliases[j].group_id = g}}

\* The partition of the existing items that the group ids make: the classes
\* of the 'same group id' relation.
Partition(D) ==
    LET ids == {<<x, groupOf(D, x)>> : x \in Existing(D)}
    IN  {{p[1] : p \in {q \in ids : q[2] = r[2]}} : r \in ids}

\* The sum of the scores of a set of items, one item at a time.
RECURSIVE ScoreSum(_, _)
ScoreSum(D, S) ==
    IF S = {} THEN 0
    ELSE LET y == CHOOSE z \in S : TRUE
         IN  score(D, y) + ScoreSum(D, S \ {y})

\* ------------------------------------------------------------------------ C1
\* C1 as stated: in any reachable state, directly after link(a,b),
\* groupOf(a) = groupOf(b) and totalScore(a) = totalScore(b) =
\* score(a) + score(b); read here for distinct a and b only (for a = b it
\* would ask for twice the score).
C1_LinkTotalIsPairSum ==
    \A a \in Items : \A b \in Items \ {a} : \A D2 \in {link(DB, a, b)} :
        /\ groupOf(D2, a) = groupOf(D2, b)
        /\ totalScore(D2, a) = totalScore(D2, b)
        /\ totalScore(D2, a) = score(D2, a) + score(D2, b)

\* C1 amended: directly after link(a,b), a and b have the same (real) group id
\* and totalScore(a) = totalScore(b) = the sum of the scores of all members of
\* the merged group; that sum is score(a) + score(b) when a and b are distinct
\* and the merged group has no third member.
C1_LinkTotalIsGroupSum ==
    \A a \in Items, b \in Items : \A D2 \in {link(DB, a, b)} :
        \A g \in {groupOf(D2, a)} : \A M \in {Members(D2, g)} :
            \A t \in {totalScore(D2, a)} :
                /\ g # 0
                /\ g = groupOf(D2, b)
                /\ t = totalScore(D2, b)
                /\ t = ScoreSum(D2, M)
                /\ (a # b /\ M = {a, b}) => t = score(D2, a) + score(D2, b)

\* Three items with non-zero scores, a and c in one group and b in another:
\* link(a,b) makes a total that counts c as well.
C1_Witness ==
    \E a \in Items, b \in Items, c \in Items :
        /\ Cardinality({a, b, c}) = 3
        /\ score(DB, a) # 0 /\ score(DB, b) # 0 /\ score(DB, c) # 0
        /\ groupOf(DB, a) = groupOf(DB, c)
        /\ groupOf(DB, b) \notin {0, groupOf(DB, a)}
        /\ \E D2 \in {link(DB, a, b)} :
               /\ Members(D2, groupOf(D2, a)) = Items
               /\ totalScore(D2, a) = score(DB, a) + score(DB, b) + score(DB, c)
               /\ totalScore(D2, a) # score(D2, a) + score(D2, b)

\* ------------------------------------------------------------------------ C2
\* link(a, b) is about to merge two different groups: the items are distinct
\* and do not already share a group.
LinkMerges(D, a, b) ==
    /\ a # b
    /\ ~(groupOf(D, a) # 0 /\ groupOf(D, a) = groupOf(D, b))

\* The group id that survives link(a, b): a's, which is the next id to
\* allocate when a does not exist yet.
Survivor(D, a) ==
    IF groupOf(D, a) # 0 THEN groupOf(D, a) ELSE D.seq + 1

\* C2: a link(a,b) of two different groups gives every item of b's group a's
\* previous group id, leaves the group id of every item of a's group and of
\* every third group as it was, and removes b's old group id from groups,
\* whatever the sizes of the two groups.
C2_LinkKeepsFirstGroup ==
    \A a \in Items, b \in Items : LinkMerges(DB, a, b) =>
        \A D2 \in {link(DB, a, b)} :
            LET gb == groupOf(DB, b)
                s == Survivor(DB, a)
            IN  /\ groupOf(D2, a) = s
                /\ groupOf(D2, b) = s
                /\ \A x \in Existing(DB) :
                       IF groupOf(DB, x) = gb
                       THEN groupOf(D2, x) = s
                       ELSE groupOf(D2, x) = groupOf(DB, x)
                /\ gb # 0 => gb \notin D2.groups
                /\ D2.groups = (groups \cup {s}) \ {gb}

\* a is alone in its group, b has a group-mate and another id: link(a,b) puts
\* the group of two under the id of the singleton and drops b's id.
C2_Witness ==
    \E a \in Items, b \in Items :
        /\ Members(DB, groupOf(DB, a)) = {a}
        /\ Cardinality(Members(DB, groupOf(DB, b))) = 2
        /\ groupOf(DB, b) \in groups
        /\ \E D2 \in {link(DB, a, b)} :
               /\ Members(D2, groupOf(DB, a)) = Items
               /\ groupOf(DB, b) \notin D2.groups

\* ------------------------------------------------------------------------ C3
\* C3 as stated: for any items a and b, after link(a,b) immediately followed
\* by unlink(a,b), groupOf(a) # groupOf(b), and the scores of a and b are what
\* they were before the unlink.
C3_UnlinkAfterLinkAnyPair ==
    \A a \in Items, b \in Items :
        \A D1 \in {link(DB, a, b)} : \A D2 \in {unlink(D1, a, b)} :
            /\ groupOf(D2, a) # groupOf(D2, b)
            /\ score(D2, a) = score(D1, a)
            /\ score(D2, b) = score(D1, b)

\* C3 amended: for any two distinct items a and b, after link(a,b) immediately
\* followed by unlink(a,b), groupOf(a) # groupOf(b) (both real group ids), and
\* the scores of a and b are what they were before the unlink.
C3_UnlinkAfterLinkSeparates ==
    \A a \in Items : \A b \in Items \ {a} :
        \A D1 \in {link(DB, a, b)} : \A D2 \in {unlink(D1, a, b)} :
            /\ groupOf(D2, a) # 0
            /\ groupOf(D2, b) # 0
            /\ groupOf(D2, a) # groupOf(D2, b)
            /\ score(D2, a) = score(D1, a)
            /\ score(D2, b) = score(D1, b)

\* Two items of different groups with non-zero scores: link(a,b) joins them
\* and unlink(a,b) gives b a group id that did not exist before.
C3_Witness ==
    \E a \in Items, b \in Items :
        /\ score(DB, a) # 0 /\ score(DB, b) # 0
        /\ groupOf(DB, a) # groupOf(DB, b)
        /\ \E D1 \in {link(DB, a, b)} : \E D2 \in {unlink(D1, a, b)} :
               /\ groupOf(D1, a) = groupOf(D1, b)
               /\ groupOf(D2, a) = groupOf(DB, a)
               /\ groupOf(D2, b) = seq + 1

\* ------------------------------------------------------------------------ C4
\* unlink(a, b) finds the two items in one group.
UnlinkSplits(D, a, b) ==
    /\ groupOf(D, a) # 0
    /\ groupOf(D, a) = groupOf(D, b)

\* What C4 says of b and of the members other than a and b after unlink(a,b)
\* has turned D into D2: b is alone in a newly allocated group, the others
\* still have the shared group id of D.
SplitOff(D, D2, a, b) ==
    /\ groupOf(D2, b) > D.seq
    /\ groupOf(D2, b) \in D2.groups
    /\ Members(D2, groupOf(D2, b)) = {b}
    /\ linkedItems(D2, b) = <<>>
    /\ totalScore(D2, b) = score(D2, b)
    /\ \A x \in Members(D, groupOf(D, a)) \ {a, b} : groupOf(D2, x) = groupOf(D, a)

\* C4 as stated: unlink(a,b) with groupOf(a) = groupOf(b) beforehand leaves b
\* alone in a newly allocated group, and every other member of the former
\* shared group, a included, with the original group id.
C4_UnlinkMovesSecondAnyPair ==
    \A a \in Items, b \in Items : UnlinkSplits(DB, a, b) =>
        \A D2 \in {unlink(DB, a, b)} :
            /\ SplitOff(DB, D2, a, b)
            /\ groupOf(D2, a) = groupOf(DB, a)

\* C4 amended: unlink(a,b) with groupOf(a) = groupOf(b) beforehand leaves b
\* alone in a newly allocated group, and every other member of the former
\* shared group with the original group id: a included when a and b are
\* distinct (unlink(a,a) moves a itself).  In a group {a,b,c},
\* groupOf(a) = groupOf(c) # groupOf(b).
C4_UnlinkMovesOnlySecond ==
    \A a \in Items, b \in Items : UnlinkSplits(DB, a, b) =>
        \A D2 \in {unlink(DB, a, b)} :
            /\ SplitOff(DB, D2, a, b)
            /\ a # b => groupOf(D2, a) = groupOf(DB, a)
            /\ (a # b /\ Members(DB, groupOf(DB, a)) = Items) =>
                   \A c \in Items \ {a, b} :
                       /\ groupOf(D2, a) = groupOf(D2, c)
                       /\ groupOf(D2, c) # groupOf(D2, b)

\* A group of three in which c has a non-zero score: unlink(a,b) leaves a and
\* c together under the old id, with a total that is not a's score alone, and
\* b alone under a new id.
C4_Witness ==
    \E a \in Items : \E b \in Items \ {a} :
        /\ Members(DB, groupOf(DB, a)) = Items
        /\ \E c \in Items \ {a, b} : score(DB, c) # 0
        /\ \E D2 \in {unlink(DB, a, b)} :
               /\ Members(D2, groupOf(DB, a)) = Items \ {b}
               /\ Members(D2, seq + 1) = {b}
               /\ totalScore(D2, a) # score(D2, a)

\* ------------------------------------------------------------------------ C5
\* C5: unlink(a,b) on two existing items of different groups changes nothing:
\* no membership, no score, no recorded group id, and no id is allocated.
C5_UnlinkDifferentGroupsNoOp ==
    \A a \in Existing(DB), b \in Existing(DB) :
        groupOf(DB, a) # groupOf(DB, b) =>
            \A D2 \in {unlink(DB, a, b)} :
                /\ D2.aliases = aliases
                /\ D2.tallies = tallies
                /\ D2.groups = groups
                /\ D2.seq = seq

\* Two existing items of different groups, the first with a group-mate and the
\* second with a non-zero score: unlink leaves the database as it is.
C5_Witness ==
    \E a \in Existing(DB), b \in Existing(DB) :
        /\ groupOf(DB, a) # groupOf(DB, b)
        /\ Members(DB, groupOf(DB, a)) # {a}
        /\ score(DB, b) # 0
        /\ unlink(DB, a, b) = DB

\* ------------------------------------------------------------------------ C6
\* In database D, for every existing item x, totalScore(x) is the sum of the
\* scores of all items whose group id is x's, x included, and two items of
\* one group report the same total.
TotalIsGroupSum(D) ==
    \A x \in Existing(D) :
        \A g \in {groupOf(D, x)} : \A M \in {Members(D, g)} : \A t \in {totalScore(D, x)} :
            /\ x \in M
            /\ t = ScoreSum(D, M)
            /\ \A y \in Existing(D) : groupOf(D, y) = g => totalScore(D, y) = t

\* C6: in every state reached by any sequence of completed operations, for
\* every existing item x, totalScore(x) is the sum of the scores of all items
\* whose group id is x's, x included; and !total x reports that sum.
C6_TotalIsGroupSum ==
    /\ TotalIsGroupSum(DB)
    /\ \A x \in Existing(DB) :
           handleMessage(DB, TotalLine(x)).out =
               <<[kind |-> "total", item |-> x,
                  total |-> ScoreSum(DB, Members(DB, groupOf(DB, x)))]>>

\* A group of two whose members score 1 and 1 beside a singleton that scores
\* -1: the totals are 2 and -1, neither a member's score of the pair nor the
\* sum over all items.
C6_Witness ==
    \E x \in Existing(DB) : \E y \in Existing(DB) \ {x} : \E z \in Existing(DB) \ {x, y} :
        /\ Members(DB, groupOf(DB, x)) = {x, y}
        /\ score(DB, x) = 1 /\ score(DB, y) = 1 /\ score(DB, z) = 0 - 1
        /\ totalScore(DB, x) = 2
        /\ totalScore(DB, y) = 2
        /\ totalScore(DB, z) = 0 - 1

\* ------------------------------------------------------------------------ C7
\* C7: after link(a,b) followed by link(b,c), the items a, b and c have one
\* group id and totalScore(a) is the sum of the scores of the whole merged
\* group, a, b and c included.
C7_LinkChain ==
    \A a \in Items, b \in Items :
        \A D1 \in {link(DB, a, b)} : \A c \in Items : \A D2 \in {link(D1, b, c)} :
            \A g \in {groupOf(D2, a)} : \A M \in {Members(D2, g)} :
                /\ g # 0
                /\ groupOf(D2, b) = g
                /\ groupOf(D2, c) = g
                /\ {a, b, c} \subseteq M
                /\ totalScore(D2, a) = ScoreSum(D2, M)

\* Three items in three groups, scoring 1, 1 and -1: link(a,b) then link(b,c)
\* puts all three under a's id with total 1.
C7_Witness ==
    \E a \in Items, b \in Items, c \in Items :
        /\ Cardinality({groupOf(DB, a), groupOf(DB, b), groupOf(DB, c)}) = 3
        /\ score(DB, a) = 1 /\ score(DB, b) = 1 /\ score(DB, c) = 0 - 1
        /\ \E D1 \in {link(DB, a, b)} : \E D2 \in {link(D1, b, c)} :
               /\ groupOf(D1, c) # groupOf(D1, a)
               /\ Members(D2, groupOf(DB, a)) = Items
               /\ totalScore(D2, a) = 1

\* ------------------------------------------------------------------------ C8
\* C8: the items with a score record are the items with a membership record,
\* and each of them has exactly one membership row, holding an allocated
\* group id.
C8_ScoreAndMembershipTogether ==
    /\ Existing(DB) = AliasItems(DB)
    /\ \A x \in Existing(DB) :
           /\ Cardinality({k \in DOMAIN aliases : aliases[k].item = x}) = 1
           /\ groupOf(DB, x) \in 1..seq

\* All three items exist, two of them in one group and the third in another.
C8_Witness ==
    /\ Existing(DB) = Items
    /\ Len(aliases) = 3
    /\ Cardinality({groupOf(DB, x) : x \in Items}) = 2

\* ------------------------------------------------------------------------ C9
Sign(operation) == IF operation = "++" THEN 1 ELSE 0 - 1

\* C9: each delta on x (created with score 0 first if needed) changes score(x)
\* by exactly +1 for ++ and -1 for --, changes no other score, and reports the
\* new score; every score is the number of increments minus the number of
\* decrements of its item so far; and x++ followed by x-- restores the score
\* of x (0 for a fresh item).
C9_DeltaIsPlusMinusOne ==
    /\ \A x \in Existing(DB) : score(DB, x) = net[x]
    /\ \A x \in Items \ Existing(DB) : net[x] = 0
    /\ \A x \in Items, operation \in Ops :
           \A r \in {handleMessage(DB, DeltaLine(<<<<x, operation>>>>))} :
               /\ x \in Existing(r.db)
               /\ score(r.db, x) = score(DB, x) + Sign(operation)
               /\ \A y \in Existing(r.db) \ {x} :
                      y \in Existing(DB) /\ score(r.db, y) = score(DB, y)
               /\ Len(r.out) = 1
               /\ r.out[1].item = x
               /\ r.out[1].score = score(r.db, x)
    /\ \A x \in Items :
           \A r \in {handleMessage(DB, DeltaLine(<<<<x, "++">>, <<x, "--">>>>))} :
               /\ score(r.db, x) = score(DB, x)
               /\ x \notin Existing(DB) => score(r.db, x) = 0
               /\ Len(r.out) = 2
               /\ r.out[1].score = score(DB, x) + 1
               /\ r.out[2].score = score(DB, x)

\* An item with score 1 and handled deltas (net 1) that is linked to another:
\* x-- brings it to 0 and says so, and x++ x-- leaves it at 1.
C9_Witness ==
    \E x \in Existing(DB) :
        /\ score(DB, x) = 1
        /\ net[x] = 1
        /\ linkedItems(DB, x) # <<>>
        /\ handleMessage(DB, DeltaLine(<<<<x, "--">>>>)).out =
               <<[kind |-> "score", item |-> x, score |-> 0,
                  linked |-> linkedItems(DB, x)]>>
        /\ score(delta(DB, <<<<x, "++">>, <<x, "--">>>>), x) = 1

\* ----------------------------------------------------------------------- C10
\* C10: for every item x that was never created, totalScore(x) = 0 and
\* linkedItems(x) is the empty sequence (and !total x reports 0).
C10_UnknownItemReadsZero ==
    \A x \in Items \ created :
        /\ totalScore(DB, x) = 0
        /\ linkedItems(DB, x) = <<>>
        /\ handleMessage(DB, TotalLine(x)).out =
               <<[kind |-> "total", item |-> x, total |-> 0]>>

\* One item was never created while the two others exist, share a group and
\* have a non-zero total.
C10_Witness ==
    \E x \in Items \ created :
        /\ totalScore(DB, x) = 0
        /\ \E y \in created : totalScore(DB, y) # 0 /\ linkedItems(DB, y) # <<>>

\* ----------------------------------------------------------------------- C11
\* The set of the entries of a sequence.
Range(sq) == {sq[k] : k \in DOMAIN sq}

\* C11: for every existing item x, linkedItems(x) holds exactly the items
\* y # x with groupOf(y) = groupOf(x), each once; it never holds x itself and
\* is empty when x is alone in its group; y is in linkedItems(x) iff x is in
\* linkedItems(y).
C11_LinkedItemsAreGroupMates ==
    \A x \in Existing(DB) : \A L \in {linkedItems(DB, x)} :
        /\ Range(L) = Members(DB, groupOf(DB, x)) \ {x}
        /\ Len(L) = Cardinality(Range(L))
        /\ x \notin Range(L)
        /\ Members(DB, groupOf(DB, x)) = {x} => L = <<>>
        /\ \A y \in Existing(DB) :
               y \in Range(L) <=> x \in Range(linkedItems(DB, y))

\* A group of two beside a singleton: each of the two lists the other, the
\* singleton lists nobody.
C11_Witness ==
    \E x \in Existing(DB) : \E y \in Existing(DB) \ {x} : \E z \in Existing(DB) \ {x, y} :
        /\ linkedItems(DB, x) = <<y>>
        /\ linkedItems(DB, y) = <<x>>
        /\ linkedItems(DB, z) = <<>>

\* ----------------------------------------------------------------------- C12
\* C12: !total and !help are pure reads: they leave the scores, the
\* membership and the recorded groups (and the id counter) as they were, and
\* !total on a never-created name does not create it: the name is still in
\* neither table afterwards, so the existing items are exactly the names that
\* a link, an unlink or a delta has named.
C12_TotalAndHelpArePureReads ==
    /\ Existing(DB) = created
    /\ handleMessage(DB, HelpLine).db = DB
    /\ \A x \in Items : \A D2 \in {handleMessage(DB, TotalLine(x)).db} :
           /\ D2.tallies = tallies
           /\ D2.aliases = aliases
           /\ D2.groups = groups
           /\ D2.seq = seq
           /\ x \notin created => (x \notin Existing(D2) /\ x \notin AliasItems(D2))

\* Two linked items with a non-zero total and a third name that was never
\* created: !total answers for each and the third is still in no table.
C12_Witness ==
    \E x \in Items \ created : \E y \in created :
        /\ linkedItems(DB, y) # <<>>
        /\ handleMessage(DB, TotalLine(y)).out[1].total # 0
        /\ handleMessage(DB, TotalLine(x)).out[1].total = 0
        /\ x \notin Existing(handleMessage(DB, TotalLine(x)).db)
        /\ handleMessage(DB, HelpLine).out = <<[kind |-> "help"]>>

\* ----------------------------------------------------------------------- C13
\* C13: link(a,b) is idempotent: a second link(a,b) directly after the first
\* leaves every item's group id, every score and the recorded groups (and the
\* id counter) exactly as they were after the first.
C13_LinkIsIdempotent ==
    \A a \in Items, b \in Items :
        \A D1 \in {link(DB, a, b)} : \A D2 \in {link(D1, a, b)} :
            /\ \A x \in Items : groupOf(D2, x) = groupOf(D1, x)
            /\ \A x \in Items : score(D2, x) = score(D1, x)
            /\ Existing(D2) = Existing(D1)
            /\ D2.groups = D1.groups
            /\ D2.aliases = D1.aliases
            /\ D2.seq = D1.seq

\* Two groups of different ids, one of them with two members: the first
\* link(a,b) merges them and retires an id, the second changes nothing.
C13_Witness ==
    \E a \in Existing(DB), b \in Existing(DB) :
        /\ groupOf(DB, a) # groupOf(DB, b)
        /\ Cardinality(Members(DB, groupOf(DB, b))) = 2
        /\ \E D1 \in {link(DB, a, b)} :
               /\ D1.groups # groups
               /\ Members(D1, groupOf(D1, a)) = Items
               /\ link(D1, a, b) = D1

\* ----------------------------------------------------------------------- C14
\* C14: ensureItem(name) on a name with no record creates it with score 0 in
\* a freshly allocated group that no other item belongs to, and leaves every
\* other item as it was; ensureItem on an existing name is a no-op that keeps
\* its score, its group id and all other state, however often it is repeated.
C14_EnsureItemCreatesOnce ==
    \A x \in Items : \A D2 \in {ensureItem(DB, x)} :
        /\ x \notin Existing(DB) =>
               /\ Existing(D2) = Existing(DB) \cup {x}
               /\ score(D2, x) = 0
               /\ groupOf(D2, x) = seq + 1
               /\ groupOf(D2, x) \notin groups
               /\ groupOf(D2, x) \in D2.groups
               /\ Members(D2, groupOf(D2, x)) = {x}
               /\ \A y \in Existing(DB) :
                      score(D2, y) = score(DB, y) /\ groupOf(D2, y) = groupOf(DB, y)
               /\ D2.groups = groups \cup {seq + 1}
        /\ x \in Existing(DB) => D2 = DB
        /\ ensureItem(D2, x) = D2
        /\ ensureItem(ensureItem(D2, x), x) = D2

\* One item with a non-zero score in a group of two, for which ensureItem
\* changes nothing, and a name without a record, for which it allocates an id
\* beyond one that a link has retired.
C14_Witness ==
    \E x \in Existing(DB) : \E y \in Items \ Existing(DB) :
        /\ score(DB, x) # 0
        /\ linkedItems(DB, x) # <<>>
        /\ ensureItem(DB, x) = DB
        /\ seq \notin groups
        /\ groupOf(ensureItem(DB, y), y) = seq + 1
        /\ score(ensureItem(DB, y), y) = 0

\* ----------------------------------------------------------------------- C15
\* The group ids in use: recorded in groups or held by a membership row.
UsedIds(D) == D.groups \cup {D.aliases[k].group_id : k \in DOMAIN D.aliases}

\* C15: group ids are never reused within a run: the ids in use never exceed
\* the allocation counter and are never 0, the counter never goes down, and
\* every id that a command brings into use is larger than the counter was
\* before the command, so larger than every id allocated earlier, the ones a
\* link has retired included.
C15_GroupIdsNeverReused ==
    /\ [](UsedIds(DB) \subseteq 1..seq)
    /\ [][/\ seq' >= seq
           /\ \A g \in UsedIds(DB)' \ UsedIds(DB) : g > seq /\ g <= seq']_vars

\* The last id allocated has been retired by a link, and an unlink of two
\* group-mates allocates the next one.
C15_Witness ==
    /\ seq \notin groups
    /\ seq > 0
    /\ \E a \in Existing(DB) : \E b \in Existing(DB) \ {a} :
           /\ groupOf(DB, a) = groupOf(DB, b)
           /\ UsedIds(unlink(DB, a, b)) \ UsedIds(DB) = {seq + 1}

\* ----------------------------------------------------------------------- C16
\* C16: stopping the process between two commands and starting it again
\* (initializeDatabase runs again on the same file) leaves every score, every
\* group id and the recorded groups as they were, so totalScore and
\* linkedItems answer as before, and the next id allocated is the same; on a
\* file that does not exist yet it makes the three empty tables.
C16_RestartKeepsState ==
    /\ initializeDatabase(NoFile) = EmptyDB
    /\ \A D2 \in {initializeDatabase(DB)} :
           /\ Existing(D2) = Existing(DB)
           /\ D2.groups = groups
           /\ D2.seq = seq
           /\ \A x \in Items :
                  /\ score(D2, x) = score(DB, x)
                  /\ groupOf(D2, x) = groupOf(DB, x)
                  /\ totalScore(D2, x) = totalScore(DB, x)
                  /\ linkedItems(D2, x) = linkedItems(DB, x)

\* A database with a merged group, a retired id and a non-zero total, which a
\* restart hands back as it is.
C16_Witness ==
    /\ groups # 1..seq
    /\ \E x \in Existing(DB) : totalScore(DB, x) # 0 /\ linkedItems(DB, x) # <<>>
    /\ initializeDatabase(DB) = DB
    /\ initializeDatabase(DB) # EmptyDB

\* ----------------------------------------------------------------------- C17
\* C17: after every completed operation, every group id recorded in groups is
\* live: at least one item's membership row holds it.
C17_RecordedGroupsAreLive ==
    \A g \in groups : \E k \in DOMAIN aliases : aliases[k].group_id = g

\* ----------------------------------------------------------------------- C18
\* C18: scores and group ids have disjoint writers: a link and an unlink
\* change no item's score (an item they create has score 0), a delta changes
\* no score but its own item's, and a delta on an existing item changes no
\* item's group id (nor the recorded groups).
C18_DisjointWriters ==
    /\ \A a \in Items, b \in Items :
           \A D1 \in {link(DB, a, b)} : \A D2 \in {unlink(DB, a, b)} :
               \A x \in Items :
                   score(D1, x) = score(DB, x) /\ score(D2, x) = score(DB, x)
    /\ \A x \in Items, operation \in Ops :
           \A D2 \in {delta(DB, <<<<x, operation>>>>)} :
               /\ \A y \in Items \ {x} : score(D2, y) = score(DB, y)
               /\ x \in Existing(DB) =>
                      /\ D2.aliases = aliases
                      /\ D2.groups = groups
                      /\ D2.seq = seq

\* Two items with different non-zero scores in different groups: the link and
\* the unlink of a group of two change group ids and no score, and a delta on
\* a linked item changes its score and no group id.
C18_Witness ==
    \E a \in Existing(DB) : \E b \in Existing(DB) \ {a} : \E c \in Existing(DB) \ {a, b} :
        /\ score(DB, a) # 0 /\ score(DB, b) # 0 /\ score(DB, a) # score(DB, b)
        /\ groupOf(DB, a) # groupOf(DB, b)
        /\ groupOf(DB, b) = groupOf(DB, c)
        /\ link(DB, a, b).aliases # aliases
        /\ link(DB, a, b).tallies = tallies
        /\ unlink(DB, b, c).aliases # aliases
        /\ unlink(DB, b, c).tallies = tallies
        /\ delta(DB, <<<<b, "--">>>>).tallies # tallies
        /\ delta(DB, <<<<b, "--">>>>).aliases = aliases

\* ----------------------------------------------------------------------- C19
\* C19: if a storage call made while a link, an unlink or a delta command is
\* processed fails, the operation aborts and no result is returned: the
\* command sends no "Linked", no "Unlinked" and no score line.
C19_FailureGivesNoResult ==
    (last.line.op \in {"link", "unlink", "delta"} /\ last.hit # {}) => last.out = <<>>

\* ----------------------------------------------------------------------- C20
\* A line of upvote matches without its n-th match.
Without(matches, n) ==
    [k \in 1..(Len(matches) - 1) |-> IF k < n THEN matches[k] ELSE matches[k + 1]]

\* C20: a storage failure at any step of an operation leaves the store
\* unbroken: afterwards every item is in both tallies and aliases or in
\* neither, every existing item has an allocated group id, and an item whose
\* score could not be read has the score it would have without the match that
\* read it (no value derived from the failed read is written).
C20_FailureLeavesStoreSound ==
    /\ [](/\ Existing(DB) = AliasItems(DB)
          /\ \A x \in Existing(DB) : groupOf(DB, x) \in 1..seq)
    /\ [][\A n \in DOMAIN last'.line.matches :
              Site("getScore", n, "select", 0) \in last'.hit =>
                  score(DB', last'.line.matches[n][1]) =
                      score(delta(DB, Without(last'.line.matches, n)),
                            last'.line.matches[n][1])]_vars

\* ----------------------------------------------------------------------- C21
\* C21: no lost update: when two delta commands on one item are processed by
\* concurrent callers, their storage statements interleaved in any order (one
\* caller after the other included), the final score of the item is its old
\* score plus the deltas of both commands.
C21_NoLostUpdate ==
    \A c1 \in {callers.c[1]}, c2 \in {callers.c[2]} :
        (/\ callers.started
         /\ c1.pc = "done" /\ c2.pc = "done"
         /\ c1.line.op = "delta" /\ c2.line.op = "delta") =>
            \A x \in Items :
                (/\ \E n \in DOMAIN c1.line.matches : c1.line.matches[n][1] = x
                 /\ \E n \in DOMAIN c2.line.matches : c2.line.matches[n][1] = x) =>
                    score(DB, x) = score(callers.start, x)
                                   + NetOf(c1.line.matches, Len(c1.line.matches), x)
                                   + NetOf(c2.line.matches, Len(c2.line.matches), x)

\* ----------------------------------------------------------------------- C22
\* The item that the statement caller c executes next reads, "-" when the
\* statement is no read of an item.
ReadItem(c) ==
    IF c.pc \in {"count", "getScore", "linkedGroup", "totalGroup", "totalScore"}
    THEN Target(c)
    ELSE IF c.pc = "getGroup1" THEN c.line.item1
    ELSE IF c.pc = "getGroup2" THEN c.line.item2
    ELSE NoItem

\* The group ids caller c has read are still the group ids of its two items
\* (after its own UPDATE: of its first item, and shared by the second), so its
\* next write acts on nothing the other caller has changed.
GroupIdsFresh(D, c) ==
    IF c.pc \in {"linkUpdate", "unlinkInsert", "unlinkUpdate"}
    THEN /\ groupOf(D, c.line.item1) = c.group1
         /\ groupOf(D, c.line.item2) = c.group2
    ELSE IF c.pc = "linkDelete"
    THEN /\ groupOf(D, c.line.item1) = c.group1
         /\ groupOf(D, c.line.item2) = c.group1
         /\ \A x \in Existing(D) : groupOf(D, x) # c.group2
    ELSE TRUE

\* The database that handling message1 and then message2 leaves.
Serial(D, message1, message2) ==
    handleMessage(handleMessage(D, message1).db, message2).db

\* C22: when two commands are processed by concurrent callers, no caller reads
\* an item that has a score record but no group, no link or unlink acts on
\* group ids that the other command has changed since they were read, and the
\* final partition is the one that running the two commands in some serial
\* order produces.
C22_CallersAreIsolated ==
    callers.started =>
        /\ \A i \in 1..2 : \A x \in {ReadItem(callers.c[i])} :
               x \in Existing(DB) => x \in AliasItems(DB)
        /\ \A i \in 1..2 : GroupIdsFresh(DB, callers.c[i])
        /\ (callers.c[1].pc = "done" /\ callers.c[2].pc = "done") =>
               Partition(DB) \in
                   {Partition(Serial(callers.start, callers.c[1].line, callers.c[2].line)),
                    Partition(Serial(callers.start, callers.c[2].line, callers.c[1].line))}

\* ----------------------------------------------------------------------- C23
\* The reference model: a set of classes (sets of items).  Creation adds a
\* singleton class for a name that is in no class.
RefCreate(P, x) == IF x \in UNION P THEN P ELSE P \cup {{x}}

\* The class of x in P.
ClassOf(P, x) == CHOOSE C \in P : x \in C

\* link(a,b): both are created if need be, the classes of a and b are replaced
\* by their union.
RefLink(P, a, b) ==
    LET P2 == RefCreate(RefCreate(P, a), b)
        A == ClassOf(P2, a)
        B == ClassOf(P2, b)
    IN  (P2 \ {A, B}) \cup {A \cup B}

\* unlink(a,b): both are created if need be; if they are in one class, b is
\* removed from it into a new singleton class.
RefUnlink(P, a, b) ==
    LET P2 == RefCreate(RefCreate(P, a), b)
        A == ClassOf(P2, a)
    IN  IF b \in A
        THEN ((P2 \ {A}) \cup {A \ {b}, {b}}) \ {{}}
        ELSE P2

\* C23: the group ids refine the reference partition: the classes of the
\* 'same group id' relation partition the created items, they are no classes
\* at the start, and every ensure-item, delta, link and unlink, on distinct or
\* equal names, changes them as the reference operation changes the reference
\* partition (a delta as the creation of its item); so after any sequence of
\* operations the two are equal.
C23_GroupIdsRefinePartition ==
    /\ Partition(EmptyDB) = {}
    /\ \A P \in {Partition(DB)} :
           /\ UNION P = created
           /\ \A A \in P, B \in P : A = B \/ A \cap B = {}
           /\ \A x \in Existing(DB), y \in Existing(DB) :
                  groupOf(DB, x) = groupOf(DB, y) <=> ClassOf(P, x) = ClassOf(P, y)
           /\ \A x \in Items :
                  /\ Partition(ensureItem(DB, x)) = RefCreate(P, x)
                  /\ \A operation \in Ops :
                         Partition(delta(DB, <<<<x, operation>>>>)) = RefCreate(P, x)
           /\ \A a \in Items, b \in Items :
                  /\ Partition(link(DB, a, b)) = RefLink(P, a, b)
                  /\ Partition(unlink(DB, a, b)) = RefUnlink(P, a, b)

\* One class of three, whose group id is not the last one allocated: unlink
\* takes one item out and leaves the two others together, unlink(a,a) does the
\* same for a, and a link puts the item back.
C23_Witness ==
    /\ Partition(DB) = {Items}
    /\ \E a \in Items : groupOf(DB, a) # seq
    /\ \E a \in Items : \E b \in Items \ {a} :
           /\ Partition(unlink(DB, a, b)) = {Items \ {b}, {b}}
           /\ Partition(unlink(DB, a, a)) = {Items \ {a}, {a}}
           /\ Partition(link(unlink(DB, a, b), b, a)) = {Items}

====
